---- MODULE Spec2Model ----
(***************************************************************************)
(* State-machine model of src/app.py: a Flask-RESTful service with two     *)
(* MongoDB collections (users, stocks), JWT session tokens and four        *)
(* market-data endpoints backed by an external provider (yfinance).        *)
(*                                                                         *)
(* Every HTTP request is one call, numbered in order of arrival.  Calls    *)
(* run concurrently: a handler is split exactly at the points where it     *)
(* talks to the store a second time or waits for the provider, so a step   *)
(* of the model holds at most one store operation.  Each store operation   *)
(* (find_one, insert_one, update_one) is atomic on its collection; the     *)
(* code creates no index, so the only unique key is the implicit _id.      *)
(*                                                                         *)
(* The store is taken to be available: its operations do not raise.        *)
(*                                                                         *)
(* Time is counted in whole hours, the unit of the token lifetime.         *)
(*                                                                         *)
(* Spec runs all six endpoints from the empty store.  SpecAuth runs the    *)
(* account endpoints alone, SpecPrice the token and latest-price endpoints *)
(* from the state after one register and one login, SpecSignal the         *)
(* recommendation over a family of bar sequences.                          *)
(***************************************************************************)
EXTENDS Integers, Sequences, FiniteSets, TLC

\* ---------------------------------------------------------------- bounds
NumProcs == 3
MaxTime == 3
MaxPrice == 2
MaxBars == 201

\* ------------------------------------------------------ program constants
TokenLifetime == 2
SMA_50 == 50
SMA_200 == 200
SECRET_KEY == "server_secret"

Procs == 1..NumProcs
Usernames == {"alice", "bob"}
Passwords == {"pw1", "pw2"}
\* A key absent from the JSON body: data["password"] raises KeyError.
MissingField == "<missing>"
Symbols == {"AAPL", "MSFT"}
Prices == 1..MaxPrice

VARIABLES users_collection, stocks_collection, now, pc, req, data, resp,
          fetches, hist

vars == <<users_collection, stocks_collection, now, pc, req, data, resp,
          fetches, hist>>

\* ------------------------------------------------------------ value shapes
\* A signature is the MAC of a payload under a key: it verifies only against
\* the same payload and the same key.
Sign(username, exp, key) == [key |-> key, username |-> username, exp |-> exp]

NoSig == Sign("", 0, "")

\* The Authorization header value.  kind "none": header absent or empty;
\* "garbage": not a JWT; "jwt": a three-part token with payload and signature.
NoToken == [kind |-> "none", username |-> "", exp |-> 0, sig |-> NoSig]

GarbageToken == [kind |-> "garbage", username |-> "", exp |-> 0, sig |-> NoSig]

NoData == [symbol |-> "", latest_price |-> 0, timestamp |-> 0]

NoReq == [op |-> "", username |-> "", password |-> "", symbol |-> "",
          token |-> NoToken, start |-> "", end |-> ""]

\* status: the HTTP status; message: the body's message or error text;
\* inner: the status that fetch_stock_data put inside the body (0 if none).
NoResp == [status |-> 0, message |-> "", token |-> NoToken, data |-> NoData,
           inner |-> 0, recommendation |-> "", bars |-> 0]

Reply(status, message) == [NoResp EXCEPT !.status = status, !.message = message]

\* ---------------------------------------------------------------- bcrypt
\* bcrypt.hashpw(password, salt): the digest embeds its salt.
hashpw(password, salt) == [salt |-> salt, digest |-> <<salt, password>>]

\* bcrypt.checkpw(password, hashed): re-hash with the embedded salt, compare.
checkpw(password, hashed) == hashpw(password, hashed.salt) = hashed

\* -------------------------------------------------------------------- jwt
\* jwt.encode({"username": u, "exp": exp}, key, algorithm="HS256").
jwt_encode(username, exp, key) ==
    [kind |-> "jwt", username |-> username, exp |-> exp,
     sig |-> Sign(username, exp, key)]

\* A decode that does not look at the exp claim.
jwt_decode_no_exp(token, key, t) ==
    IF token.kind # "jwt" THEN "InvalidTokenError"
    ELSE IF token.sig # Sign(token.username, token.exp, key)
         THEN "InvalidTokenError"
    ELSE "ok"

\* A decode that reads the exp claim before it verifies the signature.
jwt_decode_exp_first(token, key, t) ==
    IF token.kind # "jwt" THEN "InvalidTokenError"
    ELSE IF token.exp <= t THEN "ExpiredSignatureError"
    ELSE IF token.sig # Sign(token.username, token.exp, key)
         THEN "InvalidTokenError"
    ELSE "ok"

\* A decode that reads the payload without verifying the signature.
jwt_decode_unverified(token, key, t) ==
    IF token.kind # "jwt" THEN "InvalidTokenError"
    ELSE IF token.exp <= t THEN "ExpiredSignatureError"
    ELSE "ok"

\* jwt.decode(token, key, algorithms=["HS256"]) at time t: the token is
\* split, then the signature is verified over the payload, and only then is
\* the exp claim read and compared with the clock.
jwt_decode(token, key, t) ==
    IF token.kind # "jwt" THEN "InvalidTokenError"
    ELSE IF token.sig # Sign(token.username, token.exp, key)
         THEN "InvalidTokenError"
    ELSE IF token.exp <= t THEN "ExpiredSignatureError"
    ELSE "ok"

\* ------------------------------------------------------------------ store
\* The least member of a non-empty set of indices.
First(S) == CHOOSE i \in S : \A j \in S : i <= j

\* A lookup that never finds the username.
find_one_username_blind(coll, username) == 0

\* users_collection.find_one({"username": username}), lines 71 and 89: the
\* index of the first matching document in natural (insertion) order, 0 for
\* None.
find_one_username(coll, username) ==
    LET M == {i \in 1..Len(coll) : coll[i].username = username}
    IN  IF M = {} THEN 0 ELSE First(M)

\* An insert that writes over the newest record of a non-empty collection.
insert_one_replacing(coll, doc) ==
    IF coll = <<>> THEN <<doc>> ELSE [coll EXCEPT ![Len(coll)] = doc]

\* collection.insert_one(doc), line 75: appends; nothing but _id is unique.
insert_one(coll, doc) == Append(coll, doc)

\* An upsert that always inserts.
update_one_upsert_insert(coll, symbol, doc) == Append(coll, doc)

\* An update that writes the price and leaves the stored timestamp.
update_one_upsert_partial(coll, symbol, doc) ==
    LET M == {i \in 1..Len(coll) : coll[i].symbol = symbol}
    IN  IF M = {} THEN Append(coll, doc)
        ELSE [coll EXCEPT ![First(M)].latest_price = doc.latest_price]

\* stocks_collection.update_one({"symbol": symbol}, {"$set": doc},
\* upsert=True), line 57: one atomic operation of the store, which sets all
\* fields of the first matching document in place, or inserts doc if none
\* matches.
update_one_upsert(coll, symbol, doc) ==
    LET M == {i \in 1..Len(coll) : coll[i].symbol = symbol}
    IN  IF M = {} THEN Append(coll, doc) ELSE [coll EXCEPT ![First(M)] = doc]

\* ------------------------------------------------------------------- init
Init ==
    /\ users_collection = <<>>
    /\ stocks_collection = <<>>
    /\ now = 0
    /\ pc = [p \in Procs |-> "idle"]
    /\ req = [p \in Procs |-> NoReq]
    /\ data = [p \in Procs |-> NoData]
    /\ resp = [p \in Procs |-> NoResp]
    /\ fetches = [p \in Procs |-> 0]
    /\ hist = [p \in Procs |-> <<>>]

\* Calls are numbered in order of arrival.
CanStart(p) == pc[p] = "idle" /\ \A q \in DOMAIN pc : q < p => pc[q] # "idle"

Finish(p, r) ==
    /\ pc' = [pc EXCEPT ![p] = "done"]
    /\ resp' = [resp EXCEPT ![p] = r]

\* --------------------------------------------------------------- register
\* Register.post, lines 66-72 and 77-78: read the body, look the username
\* up.  Any exception, a body without the password key included, is
\* answered with status 500.
RegisterFind(p) ==
    /\ CanStart(p)
    /\ \E u \in Usernames, pw \in Passwords \cup {MissingField} :
        /\ req' = [req EXCEPT ![p] = [NoReq EXCEPT !.op = "register",
                                       !.username = u, !.password = pw]]
        /\ IF pw = MissingField
           THEN Finish(p, Reply(500, "'password'"))
           ELSE IF find_one_username(users_collection, u) # 0
           THEN Finish(p, Reply(400, "User already exists"))
           ELSE /\ pc' = [pc EXCEPT ![p] = "reg_insert"]
                /\ UNCHANGED resp
    /\ UNCHANGED <<users_collection, stocks_collection, now, data, fetches, hist>>

\* Register.post, lines 74-76: hash with a fresh salt, insert, answer 201.
RegisterInsert(p) ==
    /\ pc[p] = "reg_insert"
    /\ users_collection' = insert_one(users_collection,
            [username |-> req[p].username,
             password |-> hashpw(req[p].password, p)])
    /\ Finish(p, Reply(201, "User registered successfully"))
    /\ UNCHANGED <<stocks_collection, now, req, data, fetches, hist>>

\* ------------------------------------------------------------------ login
\* Login.post, lines 84-100: one lookup, the hash comparison, the token.
\* Any exception, a body without the password key included, is answered
\* with status 500.
Login_post(p) ==
    /\ CanStart(p)
    /\ \E u \in Usernames, pw \in Passwords \cup {MissingField} :
        /\ req' = [req EXCEPT ![p] = [NoReq EXCEPT !.op = "login",
                                       !.username = u, !.password = pw]]
        /\ LET i == find_one_username(users_collection, u)
           IN  IF pw = MissingField
               THEN Finish(p, Reply(500, "'password'"))
               ELSE IF i = 0 \/ ~checkpw(pw, users_collection[i].password)
               THEN Finish(p, Reply(401, "Invalid credentials"))
               ELSE Finish(p, [Reply(200, "") EXCEPT !.token =
                        jwt_encode(u, now + TokenLifetime, SECRET_KEY)])
    /\ UNCHANGED <<users_collection, stocks_collection, now, data, fetches, hist>>

\* ----------------------------------------------------- what a client sends
\* Tokens handed out by the logins answered so far.
Issued == {resp[q].token : q \in {x \in DOMAIN pc : pc[x] = "done"
                /\ req[x].op = "login" /\ resp[x].status = 200}}

\* An issued token with a byte of its signature flipped.
FlipSignature(t) == [t EXCEPT !.sig.key = "flipped"]

\* An issued token whose exp claim was rewritten, signature kept.
ExtendExpiry(t) == [t EXCEPT !.exp = MaxTime + TokenLifetime]

\* Tokens a client signs itself, without the server secret.
Forged == {jwt_encode(u, e, "attacker_key") :
              u \in {"alice"}, e \in {-1, MaxTime + 1}}

Headers ==
    {NoToken, GarbageToken} \cup Issued \cup Forged
    \cup {FlipSignature(t) : t \in Issued}
    \cup {ExtendExpiry(t) : t \in Issued}

\* What the provider answers to history(period="1d"): it raises, returns an
\* empty frame, or returns bars whose last close is a price.
ProviderAnswers ==
    {[kind |-> "error", close |-> 0], [kind |-> "empty", close |-> 0]}
    \cup {[kind |-> "bars", close |-> c] : c \in Prices}

\* ------------------------------------------------------------ latest price
\* A gate whose handler for an invalid token does not return.
token_required_fallthrough(token, t) ==
    IF token.kind = "none" THEN Reply(401, "Token is missing")
    ELSE IF jwt_decode(token, SECRET_KEY, t) = "ExpiredSignatureError"
    THEN Reply(401, "Token has expired")
    ELSE NoResp

\* StockMarketData.get, lines 106-115: the answer the gate gives at time t,
\* or NoResp when the token passes.
token_required(token, t) ==
    IF token.kind = "none" THEN Reply(401, "Token is missing")
    ELSE LET r == jwt_decode(token, SECRET_KEY, t)
         IN  IF r = "ExpiredSignatureError"
             THEN Reply(401, "Token has expired")
             ELSE IF r = "InvalidTokenError"
             THEN Reply(401, "Token is invalid")
             ELSE NoResp

\* StockMarketData.get, lines 105-117: the gate in front of the fetch.
StockMarketData_get(p) ==
    /\ CanStart(p)
    /\ \E s \in Symbols, token \in Headers :
        /\ req' = [req EXCEPT ![p] = [NoReq EXCEPT !.op = "stock",
                            !.symbol = s, !.token = token]]
        /\ IF token_required(token, now) # NoResp
           THEN Finish(p, token_required(token, now))
           ELSE /\ pc' = [pc EXCEPT ![p] = "stock_fetch"]
                /\ UNCHANGED resp
    /\ UNCHANGED <<users_collection, stocks_collection, now, data, fetches, hist>>

\* fetch_stock_data, lines 42-54 and 59-60, wrapped by line 117: the
\* provider call.  Whatever fetch_stock_data returns, a (body, status) pair
\* included, becomes the body of a response with status 200.
fetch_stock_data_history(p) ==
    /\ pc[p] = "stock_fetch"
    /\ fetches' = [fetches EXCEPT ![p] = @ + 1]
    /\ \E a \in ProviderAnswers :
        IF a.kind = "error"
        THEN /\ Finish(p, [Reply(200, "provider error") EXCEPT !.inner = 500])
             /\ UNCHANGED data
        ELSE IF a.kind = "empty"
        THEN /\ Finish(p, [Reply(200, "Stock data not found") EXCEPT
                                !.inner = 404])
             /\ UNCHANGED data
        ELSE /\ data' = [data EXCEPT ![p] = [symbol |-> req[p].symbol,
                            latest_price |-> a.close, timestamp |-> now]]
             /\ pc' = [pc EXCEPT ![p] = "stock_store"]
             /\ UNCHANGED resp
    /\ UNCHANGED <<users_collection, stocks_collection, now, req, hist>>

\* A latest-price call that answers with the stored record of the symbol
\* when there is one, and writes only when there is none.
fetch_stock_data_store_cached(p) ==
    LET hits == {i \in 1..Len(stocks_collection) :
                    stocks_collection[i].symbol = req[p].symbol}
    IN  /\ pc[p] = "stock_store"
        /\ IF hits # {}
           THEN /\ UNCHANGED stocks_collection
                /\ Finish(p, [Reply(200, "") EXCEPT
                                 !.data = stocks_collection[First(hits)]])
           ELSE /\ stocks_collection' = update_one_upsert(
                        stocks_collection, req[p].symbol, data[p])
                /\ Finish(p, [Reply(200, "") EXCEPT !.data = data[p]])
        /\ UNCHANGED <<users_collection, now, req, data, fetches, hist>>

\* fetch_stock_data, lines 57-58, wrapped by line 117: the upsert, then the
\* record goes back to the caller.
fetch_stock_data_store(p) ==
    /\ pc[p] = "stock_store"
    /\ stocks_collection' =
           update_one_upsert(stocks_collection, req[p].symbol, data[p])
    /\ Finish(p, [Reply(200, "") EXCEPT !.data = data[p]])
    /\ UNCHANGED <<users_collection, now, req, data, fetches, hist>>

\* ----------------------------------------------------------- company info
\* CompanyInfo.get, lines 123-135: stock.info either answers or raises.
CompanyInfo_get(p) ==
    /\ CanStart(p)
    /\ fetches' = [fetches EXCEPT ![p] = @ + 1]
    /\ \E s \in Symbols, ok \in BOOLEAN :
        /\ req' = [req EXCEPT ![p] = [NoReq EXCEPT !.op = "company",
                                       !.symbol = s]]
        /\ IF ok THEN Finish(p, Reply(200, "company info"))
                 ELSE Finish(p, Reply(500, "provider error"))
    /\ UNCHANGED <<users_collection, stocks_collection, now, data, hist>>

\* --------------------------------------------------------- historical bars
\* What the provider answers to history(start=, end=): it raises, returns an
\* empty frame, or returns n bars.
HistoryAnswers ==
    {[kind |-> "error", n |-> 0], [kind |-> "empty", n |-> 0],
     [kind |-> "bars", n |-> 2]}

\* HistoricalMarketData.get, lines 141-164.  The handler has no try block:
\* an error raised by the provider leaves it as an unhandled exception,
\* which the framework turns into its generic 500 page.
HistoricalMarketData_get(p, Dates) ==
    /\ CanStart(p)
    /\ \E s \in Symbols, start \in Dates, end \in Dates :
        /\ req' = [req EXCEPT ![p] = [NoReq EXCEPT !.op = "historical",
                        !.symbol = s, !.start = start, !.end = end]]
        /\ IF start = "" \/ end = ""
           THEN /\ Finish(p, Reply(400, "Provide 'start' and 'end'"))
                /\ UNCHANGED fetches
           ELSE /\ fetches' = [fetches EXCEPT ![p] = @ + 1]
                /\ \E a \in HistoryAnswers :
                    IF a.kind = "error"
                    THEN Finish(p, Reply(500, "unhandled exception"))
                    ELSE IF a.kind = "empty"
                    THEN Finish(p, Reply(404, "No historical data found"))
                    ELSE Finish(p, [Reply(200, "") EXCEPT !.bars = a.n])
    /\ UNCHANGED <<users_collection, stocks_collection, now, data, hist>>

\* ---------------------------------------------------------- recommendation
\* A float that may be NaN: num/den when nan is FALSE.
NaN == [nan |-> TRUE, num |-> 0, den |-> 1]

Float(num, den) == [nan |-> FALSE, num |-> num, den |-> den]

\* x > y and x < y on floats: every comparison with NaN is false.
gt(x, y) == ~x.nan /\ ~y.nan /\ x.num * y.den > y.num * x.den

lt(x, y) == ~x.nan /\ ~y.nan /\ x.num * y.den < y.num * x.den

RECURSIVE SumRange(_, _, _)
SumRange(s, lo, hi) ==
    IF lo > hi THEN 0
    ELSE IF lo = hi THEN s[lo]
    ELSE LET mid == (lo + hi) \div 2
         IN  SumRange(s, lo, mid) + SumRange(s, mid + 1, hi)

\* Series.rolling(window=w).mean(): entry i is NaN until w values are in
\* the window, then the mean of entries i-w+1..i.
rolling_mean(closes, w) ==
    [i \in 1..Len(closes) |->
        IF i < w THEN NaN ELSE Float(SumRange(closes, i - w + 1, i), w)]

\* Series.iloc[-1] of a non-empty series of n entries.
iloc_last(series, n) == series[n]

\* The rule with >= and <= in place of > and <.
recommendation_weak(closes) ==
    LET n == Len(closes)
        latest_sma_50 == iloc_last(rolling_mean(closes, SMA_50), n)
        latest_sma_200 == iloc_last(rolling_mean(closes, SMA_200), n)
        latest_price == Float(iloc_last(closes, n), 1)
    IN  IF ~lt(latest_sma_50, latest_sma_200) /\ ~latest_sma_200.nan
           /\ ~lt(latest_price, latest_sma_50)
        THEN "BUY"
        ELSE IF ~gt(latest_sma_50, latest_sma_200) /\ ~latest_sma_200.nan
                /\ ~gt(latest_price, latest_sma_50)
        THEN "SELL"
        ELSE "HOLD"

\* AnalyticalInsights.get, lines 173-185, on a non-empty Close column.  The
\* means are compared as exact fractions.
recommendation(closes) ==
    LET n == Len(closes)
        latest_sma_50 == iloc_last(rolling_mean(closes, SMA_50), n)
        latest_sma_200 == iloc_last(rolling_mean(closes, SMA_200), n)
        latest_price == Float(iloc_last(closes, n), 1)
    IN  IF gt(latest_sma_50, latest_sma_200) /\ gt(latest_price, latest_sma_50)
        THEN "BUY"
        ELSE IF lt(latest_sma_50, latest_sma_200)
                /\ lt(latest_price, latest_sma_50)
        THEN "SELL"
        ELSE "HOLD"

\* Bar sequences of n closes: a up to the last 50, then b, and c last.
Shape(n, a, b, c) ==
    [i \in 1..n |-> IF i = n THEN c ELSE IF i > n - SMA_50 THEN b ELSE a]

\* Frames the provider may answer history(period="3mo") with: it raises, or
\* returns a frame of n bars, n in Lengths, with closes in Levels.
Frames(Lengths, Levels) ==
    {[kind |-> "error", n |-> 0, a |-> 0, b |-> 0, c |-> 0]}
    \cup [kind : {"bars"}, n : Lengths, a : Levels, b : Levels, c : Levels]

\* AnalyticalInsights.get, lines 170-189: the provider raises or returns a
\* frame; iloc[-1] on an empty frame raises IndexError; every exception is
\* answered with status 500.
AnalyticalInsights_get(p, Lengths, Levels) ==
    /\ CanStart(p)
    /\ fetches' = [fetches EXCEPT ![p] = @ + 1]
    /\ \E s \in Symbols, f \in Frames(Lengths, Levels) :
        LET closes == Shape(f.n, f.a, f.b, f.c)
        IN  /\ req' = [req EXCEPT ![p] = [NoReq EXCEPT !.op = "insights",
                                           !.symbol = s]]
            /\ hist' = [hist EXCEPT ![p] = closes]
            /\ IF f.kind = "error" \/ f.n = 0
               THEN Finish(p, Reply(500, "error"))
               ELSE Finish(p, [Reply(200, "") EXCEPT
                                  !.recommendation = recommendation(closes)])
    /\ UNCHANGED <<users_collection, stocks_collection, now, data>>

\* The lengths around the two windows.
BarLengths ==
    {0, 1, SMA_50 - 1, SMA_50, SMA_50 + 1, SMA_200 - 1, SMA_200, MaxBars}

\* The lengths used when all endpoints run together.
FewLengths == {0, 2}

FewDates == {"", "2024-01-01"}

\* ------------------------------------------------------------------ clock
Tick ==
    /\ now < MaxTime
    /\ now' = now + 1
    /\ UNCHANGED <<users_collection, stocks_collection, pc, req, data, resp,
                   fetches, hist>>

Next ==
    \/ \E p \in DOMAIN pc : RegisterFind(p)
    \/ \E p \in DOMAIN pc : RegisterInsert(p)
    \/ \E p \in DOMAIN pc : Login_post(p)
    \/ \E p \in DOMAIN pc : StockMarketData_get(p)
    \/ \E p \in DOMAIN pc : fetch_stock_data_history(p)
    \/ \E p \in DOMAIN pc : fetch_stock_data_store(p)
    \/ \E p \in DOMAIN pc : CompanyInfo_get(p)
    \/ \E p \in DOMAIN pc : HistoricalMarketData_get(p, FewDates)
    \/ \E p \in DOMAIN pc : AnalyticalInsights_get(p, FewLengths, {1})
    \/ Tick

Spec == Init /\ [][Next]_vars

\* The account endpoints alone.
NextAuth ==
    \/ \E p \in DOMAIN pc : RegisterFind(p)
    \/ \E p \in DOMAIN pc : RegisterInsert(p)
    \/ \E p \in DOMAIN pc : Login_post(p)
    \/ Tick

SpecAuth == Init /\ [][NextAuth]_vars

\* The token and latest-price endpoints, with one more call, taken up after
\* the first two calls: call 1 registered alice and call 2 logged her in at
\* time 0, both answered.
PriceProcs == 1..(NumProcs + 1)

InitPrice ==
    /\ users_collection =
           <<[username |-> "alice", password |-> hashpw("pw1", 1)]>>
    /\ stocks_collection = <<>>
    /\ now = 0
    /\ pc = [p \in PriceProcs |-> IF p <= 2 THEN "done" ELSE "idle"]
    /\ req = [p \in PriceProcs |->
                IF p = 1 THEN [NoReq EXCEPT !.op = "register",
                                  !.username = "alice", !.password = "pw1"]
                ELSE IF p = 2 THEN [NoReq EXCEPT !.op = "login",
                                  !.username = "alice", !.password = "pw1"]
                ELSE NoReq]
    /\ data = [p \in PriceProcs |-> NoData]
    /\ resp = [p \in PriceProcs |->
                IF p = 1 THEN Reply(201, "User registered successfully")
                ELSE IF p = 2 THEN [Reply(200, "") EXCEPT !.token =
                        jwt_encode("alice", TokenLifetime, SECRET_KEY)]
                ELSE NoResp]
    /\ fetches = [p \in PriceProcs |-> 0]
    /\ hist = [p \in PriceProcs |-> <<>>]

NextPrice ==
    \/ \E p \in DOMAIN pc : Login_post(p)
    \/ \E p \in DOMAIN pc : StockMarketData_get(p)
    \/ \E p \in DOMAIN pc : fetch_stock_data_history(p)
    \/ \E p \in DOMAIN pc : fetch_stock_data_store(p)
    \/ Tick

SpecPrice == InitPrice /\ [][NextPrice]_vars

\* The recommendation alone, over the whole family of bar sequences.
NextSignal == \E p \in {1, 2} : AnalyticalInsights_get(p, BarLengths, Prices)

SpecSignal == Init /\ [][NextSignal]_vars

\* Values of the start and end query parameters: absent, not a date, and two
\* dates in YYYY-MM-DD form.
QueryDates == {"", "not-a-date", "2024-01-01", "2024-02-01"}

\* The historical endpoint alone, over every pair of bounds.
NextHistory == \E p \in {1, 2} : HistoricalMarketData_get(p, QueryDates)

SpecHistory == Init /\ [][NextHistory]_vars

\* All endpoints, taken up after the first two calls like SpecPrice (alice
\* is registered and holds a token), for the two calls that follow.
FrameProcs == {3, 4}

NextFrame ==
    \/ \E p \in FrameProcs : RegisterFind(p)
    \/ \E p \in FrameProcs : RegisterInsert(p)
    \/ \E p \in FrameProcs : Login_post(p)
    \/ \E p \in FrameProcs : StockMarketData_get(p)
    \/ \E p \in FrameProcs : fetch_stock_data_history(p)
    \/ \E p \in FrameProcs : fetch_stock_data_store(p)
    \/ \E p \in FrameProcs : CompanyInfo_get(p)
    \/ \E p \in FrameProcs : HistoricalMarketData_get(p, FewDates)
    \/ \E p \in FrameProcs : AnalyticalInsights_get(p, FewLengths, {1})
    \/ Tick

SpecFrame == InitPrice /\ [][NextFrame]_vars

\* The register, login and latest-price endpoints from the empty stores, for
\* three calls: a token exists only after a register and a login.
TokenProcs == {1, 2, 3}

NextToken ==
    \/ \E p \in TokenProcs : RegisterFind(p)
    \/ \E p \in TokenProcs : RegisterInsert(p)
    \/ \E p \in TokenProcs : Login_post(p)
    \/ \E p \in TokenProcs : StockMarketData_get(p)
    \/ \E p \in TokenProcs : fetch_stock_data_history(p)
    \/ \E p \in TokenProcs : fetch_stock_data_store(p)
    \/ Tick

SpecToken == Init /\ [][NextToken]_vars

\* ----------------------------------------------------- reading the state
IsDone(p, op) == pc[p] = "done" /\ req[p].op = op

\* Call p arrives in this step, as a request of kind op.
StartsAs(p, op) == pc[p] = "idle" /\ pc'[p] # "idle" /\ req'[p].op = op

\* The register calls answered 201 for username u.
CreatedFor(u) ==
    {q \in DOMAIN pc : IsDone(q, "register") /\ resp[q].status = 201
                        /\ req[q].username = u}

RecordsFor(u) ==
    {i \in 1..Len(users_collection) : users_collection[i].username = u}

\* ------------------------------------------------------------------ claims
\* C1: under any interleaving of register calls the users store holds at
\* most one record per username, and no two register calls for the same
\* username are both answered Created.
C1_UniqueUsername ==
    /\ \A u \in Usernames : Cardinality(RecordsFor(u)) <= 1
    /\ \A u \in Usernames : Cardinality(CreatedFor(u)) <= 1

C3_LoginOutcome ==
    [][\A p \in DOMAIN pc :
        (StartsAs(p, "login") /\ req'[p].password \in Passwords) =>
            LET u == req'[p].username
                pw == req'[p].password
            IN  /\ (\E q \in CreatedFor(u) : req[q].password = pw)
                    => (resp'[p].status = 200 /\ resp'[p].token.kind = "jwt")
                /\ (\E q \in CreatedFor(u) : req[q].password # pw)
                    => resp'[p].status = 401
                /\ (\/ RecordsFor(u) = {}
                    \/ \A i \in RecordsFor(u) :
                          ~checkpw(pw, users_collection[i].password))
                    => resp'[p] = Reply(401, "Invalid credentials")]_vars

\* The token's signature is the server's, over the token's own payload.
Verifies(t) ==
    t.kind = "jwt" /\ t.sig = Sign(t.username, t.exp, SECRET_KEY)

\* Call p is past the gate.
Admitted(p) ==
    /\ req[p].op = "stock"
    /\ \/ pc[p] \in {"stock_fetch", "stock_store"}
       \/ pc[p] = "done" /\ resp[p].status # 401

\* C4: a successful login of u at time t issues a token for u, signed with
\* the server secret, that expires at t + 2 hours; the gate accepts an
\* issued token at any time before its expiry, answers "Token has expired"
\* at any time after it, and answers "Token is invalid" to an issued token
\* whose signature was altered; the two failures are different answers.
C4_TokenWindow ==
    [][\A p \in DOMAIN pc :
        /\ (StartsAs(p, "login") /\ resp'[p].status = 200)
            => /\ resp'[p].token.username = req'[p].username
               /\ resp'[p].token.exp = now + 2
               /\ Verifies(resp'[p].token)
        /\ StartsAs(p, "stock")
            => LET t == req'[p].token
               IN  /\ (t \in Issued /\ now < t.exp)
                       => pc'[p] = "stock_fetch"
                   /\ (t \in Issued /\ now > t.exp)
                       => /\ pc'[p] = "done"
                          /\ resp'[p] = Reply(401, "Token has expired")
                   /\ (\E i \in Issued : t = FlipSignature(i))
                       => /\ pc'[p] = "done"
                          /\ resp'[p] = Reply(401, "Token is invalid")
                          /\ resp'[p] # Reply(401, "Token has expired")]_vars

\* C4 witness: one issued token, accepted by the gate for one call and
\* answered "Token has expired" for a later call.
C4_Witness ==
    \E p, q \in DOMAIN pc :
        /\ req[p].op = "stock" /\ req[q].op = "stock"
        /\ req[p].token \in Issued /\ req[q].token = req[p].token
        /\ Admitted(p)
        /\ pc[q] = "done" /\ resp[q] = Reply(401, "Token has expired")

\* C5: a token whose signature does not verify is answered "Token is
\* invalid" whatever its exp claim says, and "Token has expired" is answered
\* only to tokens whose signature verifies.
C5_SignatureFirst ==
    [][\A p \in DOMAIN pc :
        StartsAs(p, "stock")
        => LET t == req'[p].token
           IN  /\ (t.kind = "jwt" /\ ~Verifies(t))
                   => /\ pc'[p] = "done"
                      /\ resp'[p] = Reply(401, "Token is invalid")
               /\ (pc'[p] = "done"
                   /\ resp'[p] = Reply(401, "Token has expired"))
                   => Verifies(t)]_vars

\* C5 witness: a token signed with another key, its exp claim in the past
\* at every time of the model, was answered "Token is invalid".
C5_Witness ==
    \E p \in DOMAIN pc :
        /\ IsDone(p, "stock")
        /\ req[p].token.kind = "jwt" /\ ~Verifies(req[p].token)
        /\ req[p].token.exp < 0
        /\ resp[p] = Reply(401, "Token is invalid")

\* C6: the latest-price call is answered "Token is missing" without an
\* Authorization value, "Token has expired" with an expired token and "Token
\* is invalid" with a token that does not verify; a call so answered makes
\* no provider fetch and leaves the price store alone; provider fetches and
\* price-store writes are made only by calls whose token was valid at the
\* gate.
C6_GateBlocks ==
    /\ [](\A p \in DOMAIN pc :
            req[p].op = "stock"
            => /\ (pc[p] = "done" /\ resp[p].status = 401)
                   => (fetches[p] = 0 /\ data[p] = NoData)
               /\ (fetches[p] > 0 \/ Admitted(p))
                   => Verifies(req[p].token))
    /\ [][/\ \A p \in DOMAIN pc :
              StartsAs(p, "stock")
              => LET t == req'[p].token
                 IN  /\ t.kind = "none"
                         => resp'[p] = Reply(401, "Token is missing")
                     /\ (Verifies(t) /\ t.exp < now)
                         => resp'[p] = Reply(401, "Token has expired")
                     /\ (t.kind # "none" /\ ~Verifies(t))
                         => resp'[p] = Reply(401, "Token is invalid")
                     /\ resp'[p].status = 401
                         => /\ pc'[p] = "done"
                            /\ stocks_collection' = stocks_collection
                            /\ fetches' = fetches
                     /\ resp'[p].status # 401
                         => /\ pc'[p] = "stock_fetch"
                            /\ Verifies(t) /\ now < t.exp
          /\ stocks_collection' # stocks_collection
              => \E p \in DOMAIN pc : Admitted(p) /\ pc[p] = "stock_store"
          /\ \A p \in DOMAIN pc :
              (req[p].op = "stock" /\ fetches'[p] # fetches[p])
              => Admitted(p)]_vars

\* C6 witness: a call with an expired token was answered "Token has
\* expired", made no fetch, and the price store is empty.
C6_Witness ==
    \E p \in DOMAIN pc :
        /\ IsDone(p, "stock")
        /\ req[p].token \in Issued
        /\ resp[p] = Reply(401, "Token has expired")
        /\ fetches[p] = 0
        /\ stocks_collection = <<>>

StockRecordsFor(s) ==
    {i \in 1..Len(stocks_collection) : stocks_collection[i].symbol = s}

\* C7: with latest-price calls for one symbol in flight together, each
\* holding the (price, timestamp) pair it fetched, every call that fetched a
\* pair is answered 200 with its own record, and every stored record is,
\* field for field, the record of one call.
C7_NoMixedRecord ==
    /\ \A i \in 1..Len(stocks_collection) :
          \E q \in DOMAIN pc :
              /\ IsDone(q, "stock")
              /\ req[q].symbol = stocks_collection[i].symbol
              /\ data[q] = stocks_collection[i]
    /\ \A p \in DOMAIN pc :
          (IsDone(p, "stock") /\ data[p] # NoData)
          => /\ resp[p].status = 200 /\ resp[p].inner = 0
             /\ resp[p].data = data[p]

\* C7 witness: two calls for one symbol overlap (q fetched first and has
\* not written, p fetched later and has written), their prices and
\* timestamps differ, and the store holds p's record.
C7_Witness ==
    \E p, q \in DOMAIN pc :
        /\ IsDone(p, "stock") /\ resp[p].status = 200
        /\ req[q].op = "stock" /\ pc[q] = "stock_store"
        /\ req[q].symbol = req[p].symbol
        /\ data[q].timestamp < data[p].timestamp
        /\ data[q].latest_price # data[p].latest_price
        /\ \E i \in StockRecordsFor(req[p].symbol) :
               stocks_collection[i] = data[p]

\* C8: the price store holds at most one record per symbol; a successful
\* fetch for a symbol without a record adds one, a successful fetch for a
\* symbol with a record overwrites it in place, and the records of other
\* symbols stay as they are.
C8_OneRecordPerSymbol ==
    /\ [](\A s \in Symbols : Cardinality(StockRecordsFor(s)) <= 1)
    /\ [][\A p \in DOMAIN pc :
            (pc[p] = "stock_store" /\ pc'[p] = "done")
            => LET s == req[p].symbol
                   n == Len(stocks_collection)
               IN  /\ StockRecordsFor(s) = {}
                       => /\ Len(stocks_collection') = n + 1
                          /\ stocks_collection'[n + 1] = data[p]
                   /\ StockRecordsFor(s) # {}
                       => /\ Len(stocks_collection') = n
                          /\ \A i \in StockRecordsFor(s) :
                                 stocks_collection'[i] = data[p]
                   /\ \A i \in 1..n :
                          stocks_collection[i].symbol # s
                          => stocks_collection'[i] = stocks_collection[i]]_vars

\* C8 witness: two calls for one symbol were answered with different
\* records, and the store holds one record for the symbol.
C8_Witness ==
    \E p, q \in DOMAIN pc :
        /\ IsDone(p, "stock") /\ IsDone(q, "stock")
        /\ req[p].symbol = req[q].symbol
        /\ data[p] # NoData /\ data[q] # NoData /\ data[p] # data[q]
        /\ Cardinality(StockRecordsFor(req[p].symbol)) = 1

\* C9: when the provider fails (raises, or returns no bars) in an authorized
\* latest-price call, the response does not carry status 200, the provider
\* was called once, and the price store is left as it was.
C9_ProviderFailureSurfaces ==
    [][\A p \in DOMAIN pc :
        (pc[p] = "stock_fetch" /\ pc'[p] = "done")
        => /\ resp'[p].status # 200
           /\ fetches'[p] = 1
           /\ stocks_collection' = stocks_collection]_vars

\* The sum of the last n closes.
SumLast(closes, n) == SumRange(closes, Len(closes) - n + 1, Len(closes))

\* C10: on a bar sequence with at least 200 bars, where SMA50 and SMA200 are
\* both defined, the verdict is BUY exactly when SMA50 > SMA200 and latest
\* close > SMA50, SELL exactly when SMA50 < SMA200 and latest close < SMA50,
\* and HOLD otherwise; equal bar sequences get equal verdicts.
C10_DecisionRule ==
    /\ \A p \in DOMAIN pc :
          (IsDone(p, "insights") /\ Len(hist[p]) >= 200)
          => LET s50 == SumLast(hist[p], 50)
                 s200 == SumLast(hist[p], 200)
                 last == hist[p][Len(hist[p])]
                 buy == 200 * s50 > 50 * s200 /\ 50 * last > s50
                 sell == 200 * s50 < 50 * s200 /\ 50 * last < s50
             IN  /\ resp[p].status = 200
                 /\ resp[p].recommendation = "BUY" <=> buy
                 /\ resp[p].recommendation = "SELL" <=> sell
                 /\ resp[p].recommendation = "HOLD" <=> (~buy /\ ~sell)
    /\ \A p, q \in DOMAIN pc :
          (IsDone(p, "insights") /\ IsDone(q, "insights")
           /\ resp[p].status = 200 /\ hist[p] = hist[q])
          => resp[p].recommendation = resp[q].recommendation

\* C10 witness: one call on 200 or more bars answered BUY, another SELL.
C10_Witness ==
    \E p, q \in DOMAIN pc :
        /\ IsDone(p, "insights") /\ Len(hist[p]) >= 200
        /\ resp[p].recommendation = "BUY"
        /\ IsDone(q, "insights") /\ Len(hist[q]) >= 200
        /\ resp[q].recommendation = "SELL"

\* C11: a call whose fetched bar sequence has fewer than 200 bars is never
\* answered with a BUY, SELL or HOLD verdict (it gets an outcome of its own,
\* "insufficient history").
C11_InsufficientHistory ==
    \A p \in DOMAIN pc :
        (IsDone(p, "insights") /\ Len(hist[p]) < SMA_200)
        => resp[p].recommendation \notin {"BUY", "SELL", "HOLD"}

\* A query parameter that is present and reads as a YYYY-MM-DD date.
Parsable(d) == d \in {"2024-01-01", "2024-02-01"}

\* C12: a historical call with a missing or unparsable bound is answered 400
\* without a provider call; with two parsable bounds the provider is called
\* once and the answer is 404 (the provider returned an empty range), 200
\* with the provider's bars, or a typed failure response, never an unhandled
\* error.
C12_HistoryOutcomes ==
    [][\A p \in DOMAIN pc :
        StartsAs(p, "historical")
        => /\ pc'[p] = "done"
           /\ (~Parsable(req'[p].start) \/ ~Parsable(req'[p].end))
               => /\ resp'[p].status = 400
                  /\ fetches'[p] = fetches[p]
           /\ (Parsable(req'[p].start) /\ Parsable(req'[p].end))
               => /\ fetches'[p] = fetches[p] + 1
                  /\ \/ resp'[p].status = 404 /\ resp'[p].bars = 0
                     \/ resp'[p].status = 200 /\ resp'[p].bars > 0
                     \/ /\ resp'[p].status >= 500
                        /\ resp'[p].message # "unhandled exception"]_vars

\* Latest-price calls for symbol s that fetched bars and have not written.
WritersInFlight(s) ==
    {q \in DOMAIN pc : pc[q] = "stock_store" /\ req[q].symbol = s}

\* C13: every latest-price call answered with a record made one provider
\* fetch and is answered with the record built from that fetch, whatever the
\* store held; its write leaves exactly that record stored for the symbol,
\* and the stored record of a symbol changes only in the write of a call for
\* that symbol, so with no other such call in flight it stays the record
\* returned.
C13_FreshFetch ==
    /\ [](\A p \in DOMAIN pc :
            (IsDone(p, "stock") /\ resp[p].status = 200 /\ resp[p].inner = 0)
            => /\ fetches[p] = 1
               /\ data[p] # NoData
               /\ data[p].symbol = req[p].symbol
               /\ resp[p].data = data[p])
    /\ [][/\ \A p \in DOMAIN pc :
              (pc[p] = "stock_store" /\ pc'[p] = "done")
              => /\ resp'[p].data = data[p]
                 /\ \A i \in 1..Len(stocks_collection') :
                        stocks_collection'[i].symbol = req[p].symbol
                        => stocks_collection'[i] = resp'[p].data
                 /\ \E i \in 1..Len(stocks_collection') :
                        stocks_collection'[i] = resp'[p].data
          /\ \A p \in DOMAIN pc :
              (pc[p] = "stock_fetch" /\ pc'[p] = "stock_store")
              => /\ fetches'[p] = fetches[p] + 1
                 /\ data'[p].timestamp = now
                 /\ stocks_collection' = stocks_collection
          /\ \A s \in Symbols :
              WritersInFlight(s) = {}
              => /\ StockRecordsFor(s)' = StockRecordsFor(s)
                 /\ \A i \in StockRecordsFor(s) :
                        stocks_collection'[i] = stocks_collection[i]]_vars

\* C13 witness: two calls for one symbol were answered with records of
\* different prices, no other call for the symbol is in flight, and the
\* store holds the record returned to the later one.
C13_Witness ==
    \E p, q \in DOMAIN pc :
        /\ IsDone(p, "stock") /\ IsDone(q, "stock")
        /\ req[p].symbol = req[q].symbol
        /\ resp[p].status = 200 /\ resp[q].status = 200
        /\ data[p] # NoData /\ data[q] # NoData
        /\ resp[q].data.latest_price # resp[p].data.latest_price
        /\ resp[q].data.timestamp < resp[p].data.timestamp
        /\ WritersInFlight(req[p].symbol) = {}
        /\ \A r \in DOMAIN pc : req[r].symbol = req[p].symbol
                                  => pc[r] = "done"
        /\ \A i \in StockRecordsFor(req[p].symbol) :
               stocks_collection[i] = resp[p].data

\* Call p takes a step: its position changes.
Stepping(p) == pc'[p] # pc[p]

\* C14: the users store changes only in the step of a register call that is
\* answered Created, and then by one appended record, the records before it
\* kept as they were; no step removes or rewrites a credential record; the
\* steps of login, a rejected register, latest-price, history, insights and
\* company-info calls leave the users store as it was, and the steps of
\* history, insights, company-info, register and login calls leave the price
\* store as it was.
C14_Frame ==
    [][/\ users_collection' # users_collection
          => \E p \in DOMAIN pc :
                /\ Stepping(p) /\ req[p].op = "register"
                /\ pc'[p] = "done" /\ resp'[p].status = 201
                /\ Len(users_collection') = Len(users_collection) + 1
                /\ users_collection'[Len(users_collection')].username =
                       req[p].username
       /\ Len(users_collection') >= Len(users_collection)
       /\ \A i \in 1..Len(users_collection) :
              users_collection'[i] = users_collection[i]
       /\ \A p \in DOMAIN pc :
              Stepping(p)
              => /\ (req'[p].op \in {"login", "stock", "historical",
                                      "insights", "company"}
                     \/ (req'[p].op = "register" /\ resp'[p].status # 201))
                    => users_collection' = users_collection
                 /\ req'[p].op \in {"historical", "insights", "company",
                                     "register", "login"}
                    => stocks_collection' = stocks_collection]_vars

\* C14 witness: with alice's record and a price record stored, a register
\* for a new username was answered Created and appended one record, and the
\* price record is still the one the earlier latest-price call returned.
C14_Witness ==
    \E p, q \in DOMAIN pc :
        /\ IsDone(p, "stock") /\ resp[p].status = 200 /\ data[p] # NoData
        /\ IsDone(q, "register") /\ resp[q].status = 201 /\ p < q
        /\ stocks_collection = <<data[p]>>
        /\ Len(users_collection) = 2
        /\ users_collection[1] =
               [username |-> "alice", password |-> hashpw("pw1", 1)]
        /\ users_collection[2].username = req[q].username

\* The logins answered with token t.
IssuersOf(t) ==
    {q \in DOMAIN pc : IsDone(q, "login") /\ resp[q].status = 200
                        /\ resp[q].token = t}

\* Login q was answered with a token and, before it arrived, a register of
\* the same username and password was answered Created.
LoginAfterRegister(q) ==
    /\ IsDone(q, "login") /\ resp[q].status = 200
    /\ \E r \in CreatedFor(req[q].username) :
          r < q /\ req[r].password = req[q].password

\* C15: a login is answered with a token only when the users store holds a
\* record of its username whose hash matches its password, written by a
\* register answered Created, and the token expires 2 hours later; the gate
\* lets a call pass only with a token that such a login issued, less than 2
\* hours after it was issued; so every call past the gate, and every record
\* of the price store, has before it a login answered with a token and,
\* before that, a register of the login's username answered Created.
C15_TokenProvenance ==
    /\ [](/\ \A p \in DOMAIN pc :
              Admitted(p)
              => \E q \in IssuersOf(req[p].token) :
                    q < p /\ LoginAfterRegister(q)
          /\ stocks_collection # <<>>
              => \E p, q \in DOMAIN pc :
                    /\ Admitted(p) /\ q < p
                    /\ q \in IssuersOf(req[p].token)
                    /\ LoginAfterRegister(q))
    /\ [][\A p \in DOMAIN pc :
            /\ (StartsAs(p, "login") /\ resp'[p].status = 200)
                => /\ \E i \in RecordsFor(req'[p].username) :
                         users_collection[i].password.digest =
                             <<users_collection[i].password.salt,
                               req'[p].password>>
                   /\ \E r \in CreatedFor(req'[p].username) :
                         req[r].password = req'[p].password
                   /\ resp'[p].token.username = req'[p].username
                   /\ resp'[p].token.exp = now + 2
            /\ (StartsAs(p, "stock") /\ pc'[p] = "stock_fetch")
                => /\ IssuersOf(req'[p].token) # {}
                   /\ now - (req'[p].token.exp - 2) \in {0, 1}]_vars

\* C15 witness: a register answered Created, then a login of that username
\* answered with a token, then a latest-price call with that token that
\* wrote its record to the price store.
C15_Witness ==
    \E r, q, p \in DOMAIN pc :
        /\ r < q /\ q < p
        /\ IsDone(r, "register") /\ resp[r].status = 201
        /\ LoginAfterRegister(q) /\ req[q].username = req[r].username
        /\ IsDone(p, "stock") /\ req[p].token = resp[q].token
        /\ resp[p].status = 200
        /\ stocks_collection = <<resp[p].data>>
====
